---- MODULE Spec2Model ----
(***************************************************************************)
(* A model of the request orchestration layer of common-utils-fetch:       *)
(*   - InterceptorManager (src/src/interceptorManager.ts): use, eject,     *)
(*     size, forEachAsync, forEachReverseAsync;                            *)
(*   - CommonRequest (src/src/index.ts): applyRequestInterceptors,         *)
(*     applyResponseInterceptors, timeoutPromise, the retry loop of        *)
(*     request on the direct (no progress callback) path,                  *)
(*     downloadWithProgress, uploadWithProgress and the timeout setter.    *)
(*                                                                         *)
(* Four specifications share the variables:                                *)
(*   Spec         one InterceptorManager under use/eject with a forward    *)
(*                traversal (the request chain) and a reverse traversal    *)
(*                (the response chain) that suspend at every await;        *)
(*   SpecRequest  one direct-path request: attempts, deadline timer, user  *)
(*                signal, inter-retry delay, response chain;               *)
(*   SpecSetter   one direct-path request and assignments to               *)
(*                request.timeout while it is in flight;                   *)
(*   SpecPipeline one call of request() from its entry through the         *)
(*                request chain to the direct, download or upload path.    *)
(* Time is counted in ticks of 1000 ms.                                    *)
(***************************************************************************)
EXTENDS Integers, Sequences, FiniteSets, TLC

\* ------------------------------------------------------------------ bounds
MaxUses == 3            \* use() calls per behaviour
MaxRetries == 2         \* largest options.retries tried
MaxChain == 2           \* response interceptors registered before a request
MaxBytes == 3           \* bytes in the body of a downloaded response

\* ------------------------------------------------------- program constants
DefaultTimeout == 5     \* this._timeout = 5000 ms
DefaultRetryDelay == 2  \* retryDelay: 2000 ms

\* ------------------------------------------------------------------ values
\* The callbacks a caller may register.  As a request interceptor f prepends
\* the base url and hands the options back, g returns only new options (one
\* more header), h returns nothing.  As a response interceptor f and g wrap
\* the response they receive and h throws.  u is registered on a request
\* registry only: it returns a new url and no options.
Callbacks == {"f", "g", "h"}
ReqCallbacks == Callbacks \cup {"u"}

Undefined == "undefined"

\* The context request() hands to applyRequestInterceptors.
SeedCtx == [url |-> <<"/posts/1">>, options |-> {}]

\* What a request interceptor returns: Partial<RequestContext> | void.
Void == [void |-> TRUE]
Partial(hasUrl, url, hasOptions, options) ==
    [void |-> FALSE, hasUrl |-> hasUrl, url |-> url,
     hasOptions |-> hasOptions, options |-> options]

ReqInterceptor(cb, ctx) ==
    CASE cb = "f" -> Partial(TRUE, <<"base">> \o ctx.url, TRUE, ctx.options)
      [] cb = "g" -> Partial(FALSE, <<>>, TRUE, ctx.options \cup {"X-Test-Header-2"})
      [] cb = "u" -> Partial(TRUE, <<"v2">> \o ctx.url, FALSE, {})
      [] OTHER    -> Void

\* What a response interceptor does with the response it receives.
ResThrows(cb) == cb = "h"
ResInterceptor(cb, res) == [res EXCEPT !.by = Append(@, cb)]

VARIABLES
    \* InterceptorManager
    interceptors,     \* Map<number, T>: a function from ids to callbacks
    interceptorIds,   \* number[]
    nextId,
    \* history of the registry
    issued,           \* the ids use returned, in call order
    registered,       \* id :> callback, for the ids use returned and eject
                      \* was not called on since
    \* one forEachAsync traversal (applyRequestInterceptors)
    fwd,
    \* one forEachReverseAsync traversal (applyResponseInterceptors)
    rev,
    \* one direct-path request
    req,
    att,
    calls,
    \* one call of request() from its entry to its settlement
    pipe,
    \* downloadWithProgress
    dl,
    \* uploadWithProgress
    up

regVars == <<interceptors, interceptorIds, nextId, issued, registered>>
reqVars == <<req, att, calls>>
pathVars == <<pipe, dl, up>>
vars == <<interceptors, interceptorIds, nextId, issued, registered, fwd, rev,
          req, att, calls, pipe, dl, up>>

\* ------------------------------------------------------ InterceptorManager
Ids == 0..MaxUses

Size == Cardinality(DOMAIN interceptors)

\* this.interceptors.get(id)
Get(m, id) == IF id \in DOMAIN m THEN m[id] ELSE Undefined

\* if (!interceptor) continue;   (mutant: the check is dropped)
HasInterceptorNoCheck(m, id) == TRUE
HasInterceptor(m, id) == Get(m, id) # Undefined

\* this.interceptorIds.filter(i => i !== id)   (mutant: the rest is reversed)
RECURSIVE FilterOutReversed(_, _)
FilterOutReversed(s, id) ==
    IF s = <<>> THEN <<>>
    ELSE IF s[Len(s)] = id THEN FilterOutReversed(SubSeq(s, 1, Len(s) - 1), id)
    ELSE <<s[Len(s)]>> \o FilterOutReversed(SubSeq(s, 1, Len(s) - 1), id)
RECURSIVE FilterOut(_, _)
FilterOut(s, id) ==
    IF s = <<>> THEN <<>>
    ELSE IF Head(s) = id THEN FilterOut(Tail(s), id)
    ELSE <<Head(s)>> \o FilterOut(Tail(s), id)

\* const id = this.nextId++   (mutant: the counter is rewound to the size)
NextIdAfterReuse(n, m) == Cardinality(DOMAIN m)
NextIdAfter(n, m) == n + 1

\* Traversals are taken one at a time: the program walks a registry in one
\* direction only, and two walks of one registry do not affect each other.
\* mutated records that use or eject was called since the traversal began,
\* startNext the value of nextId when it began (the ids below it are those
\* use had returned by then);
\* banned holds the ids ejected while the traversal was suspended and before
\* their callback was invoked (emptied when the traversal ends).
\*
\* The array a for-of over this.interceptorIds walks: the array object the
\* loop started on.  push changes that object in place, filter in eject
\* makes a new one and leaves the old one to the loop.
FwdArray == IF fwd.shared THEN interceptorIds ELSE fwd.arr

Min(S) == CHOOSE x \in S : \A y \in S : x <= y
Max(S) == CHOOSE x \in S : \A y \in S : x >= y

IdleFwd ==
    [pc |-> "idle", arr |-> <<>>, shared |-> FALSE, k |-> 0,
     seed |-> SeedCtx, newCtx |-> SeedCtx, visited |-> <<>>,
     mutated |-> FALSE, banned |-> {}, startNext |-> 0]

IdleRev ==
    [pc |-> "idle", i |-> 0, res |-> [attempt |-> 0, by |-> <<>>],
     visited |-> <<>>, mutated |-> FALSE, banned |-> {},
     error |-> Undefined, startNext |-> 0]

VisitedIds(v) == [j \in 1..Len(v) |-> v[j].id]

\* The for-of loop of forEachAsync from iterator position f.k on: entries
\* without an interceptor are passed over, the next one is handed to fn and
\* the traversal suspends in `await fn(interceptor)`; fn is the callback of
\* applyRequestInterceptors, which calls interceptor(ctx).
FwdAdvance(f, arr, m) ==
    LET c == {j \in (f.k + 1)..Len(arr) : HasInterceptor(m, arr[j])}
    IN  IF c = {} THEN [f EXCEPT !.pc = "done", !.k = 0, !.arr = <<>>, !.shared = FALSE, !.banned = {}]
        ELSE LET j == Min(c)
             IN  [f EXCEPT !.pc = "suspended", !.k = j,
                           !.visited = Append(@, [id |-> arr[j],
                                                  cb |-> Get(m, arr[j]),
                                                  arg |-> f.seed])]

\* let i = this.interceptorIds.length - 1, as a 1-based position
\* (mutant: the loop starts one entry too low)
RevFirstIndexTooLow(ids) == Len(ids) - 1
RevFirstIndex(ids) == Len(ids)

\* The loop of forEachReverseAsync from index r.i (1-based) down: it reads
\* this.interceptorIds anew in every round.
RevAdvance(r, ids, m) ==
    LET c == {j \in 1..r.i : j <= Len(ids) /\ HasInterceptor(m, ids[j])}
    IN  IF c = {} THEN [r EXCEPT !.pc = "done", !.i = 0, !.banned = {}]
        ELSE LET j == Max(c)
             IN  [r EXCEPT !.pc = "suspended", !.i = j - 1,
                           !.visited = Append(@, [id |-> ids[j],
                                                  cb |-> Get(m, ids[j]),
                                                  arg |-> r.res])]

\* use(interceptor)
Use(cb) ==
    /\ nextId < MaxUses
    /\ interceptorIds' = Append(interceptorIds, nextId)
    /\ interceptors' = [id \in DOMAIN interceptors \cup {nextId} |->
                           IF id = nextId THEN cb ELSE interceptors[id]]
    /\ nextId' = NextIdAfter(nextId, interceptors)
    /\ issued' = Append(issued, nextId)
    /\ registered' = [id \in DOMAIN registered \cup {nextId} |->
                         IF id = nextId THEN cb ELSE registered[id]]
    /\ fwd' = IF fwd.pc # "idle" THEN [fwd EXCEPT !.mutated = TRUE] ELSE fwd
    /\ rev' = IF rev.pc # "idle" THEN [rev EXCEPT !.mutated = TRUE] ELSE rev
    /\ UNCHANGED <<reqVars, pathVars>>

\* eject(id)
Eject(id) ==
    /\ interceptorIds' = FilterOut(interceptorIds, id)
    /\ interceptors' = [j \in DOMAIN interceptors \ {id} |-> interceptors[j]]
    /\ registered' = [j \in DOMAIN registered \ {id} |-> registered[j]]
    /\ fwd' = IF fwd.pc = "suspended"
              THEN [fwd EXCEPT !.mutated = TRUE,
                               !.arr = FwdArray, !.shared = FALSE,
                               !.banned = IF id \in DOMAIN interceptors
                                             /\ id \notin {v.id : v \in {fwd.visited[j] : j \in 1..Len(fwd.visited)}}
                                          THEN @ \cup {id} ELSE @]
              ELSE IF fwd.pc # "idle" THEN [fwd EXCEPT !.mutated = TRUE] ELSE fwd
    /\ rev' = IF rev.pc = "suspended"
              THEN [rev EXCEPT !.mutated = TRUE,
                               !.banned = IF id \in DOMAIN interceptors
                                             /\ id \notin {v.id : v \in {rev.visited[j] : j \in 1..Len(rev.visited)}}
                                          THEN @ \cup {id} ELSE @]
              ELSE IF rev.pc # "idle" THEN [rev EXCEPT !.mutated = TRUE] ELSE rev
    /\ UNCHANGED <<nextId, issued>>
    /\ UNCHANGED <<reqVars, pathVars>>

\* newCtx = { url: result.url ?? newCtx.url,
\*            options: result.options ?? newCtx.options }  when result is truthy
\* (mutant: a field the result lacks is not taken from newCtx)
MergeDropsOther(ctx, result) ==
    IF result.void THEN ctx
    ELSE [url |-> result.url, options |-> result.options]
Merge(ctx, result) ==
    IF result.void THEN ctx
    ELSE [url |-> IF result.hasUrl THEN result.url ELSE ctx.url,
          options |-> IF result.hasOptions THEN result.options ELSE ctx.options]

\* applyRequestInterceptors(ctx), up to its first await
FwdStartWith(ctx) ==
    fwd' = IF Size <= 0
           THEN [IdleFwd EXCEPT !.pc = "done", !.seed = ctx, !.newCtx = ctx,
                                !.startNext = nextId]
           ELSE FwdAdvance([IdleFwd EXCEPT !.shared = TRUE, !.seed = ctx,
                                           !.newCtx = ctx,
                                           !.startNext = nextId],
                           interceptorIds, interceptors)

FwdStart ==
    /\ fwd.pc \in {"idle", "done"}
    /\ rev.pc # "suspended"
    /\ FwdStartWith(SeedCtx)
    /\ UNCHANGED <<pathVars, regVars, rev, reqVars>>

\* The awaited interceptor returns: newCtx takes what it returned, and the
\* loop goes on to the next interceptor.
FwdResume ==
    /\ fwd.pc = "suspended"
    /\ LET cur == fwd.visited[Len(fwd.visited)]
           result == ReqInterceptor(cur.cb, cur.arg)
       IN  fwd' = FwdAdvance([fwd EXCEPT !.newCtx = Merge(@, result)],
                             FwdArray, interceptors)
    /\ UNCHANGED <<pathVars, regVars, rev, reqVars>>

\* applyResponseInterceptors(response), up to its first await
RevStartWith(response) ==
    rev' = IF Size <= 0
           THEN [IdleRev EXCEPT !.pc = "done", !.res = response,
                                !.startNext = nextId]
           ELSE RevAdvance([IdleRev EXCEPT !.i = RevFirstIndex(interceptorIds),
                                           !.res = response,
                                           !.startNext = nextId],
                           interceptorIds, interceptors)

\* The awaited response interceptor returns or throws.
\* (mutant: what the interceptor returned is not assigned to res)
RevResumeStepUnchained ==
    LET cur == rev.visited[Len(rev.visited)]
    IN  rev' = IF ResThrows(cur.cb)
               THEN [rev EXCEPT !.pc = "threw", !.error = "InterceptorError"]
               ELSE RevAdvance(rev, interceptorIds, interceptors)
RevResumeStep ==
    LET cur == rev.visited[Len(rev.visited)]
    IN  rev' = IF ResThrows(cur.cb)
               THEN [rev EXCEPT !.pc = "threw", !.error = "InterceptorError"]
               ELSE RevAdvance([rev EXCEPT !.res = ResInterceptor(cur.cb, cur.arg)],
                               interceptorIds, interceptors)

RevStart ==
    /\ rev.pc \in {"idle", "done", "threw"}
    /\ fwd.pc # "suspended"
    /\ RevStartWith([attempt |-> 0, by |-> <<>>])
    /\ UNCHANGED <<pathVars, regVars, fwd, reqVars>>

RevResume ==
    /\ rev.pc = "suspended"
    /\ RevResumeStep
    /\ UNCHANGED <<pathVars, regVars, fwd, reqVars>>

\* ------------------------------------------------- registry: what is claimed
\* The ascending enumeration of a set of ids.
RECURSIVE Ascending(_)
Ascending(S) ==
    IF S = {} THEN <<>> ELSE <<Min(S)>> \o Ascending(S \ {Min(S)})

Reverse(s) == [j \in 1..Len(s) |-> s[Len(s) + 1 - j]]

\* Every visit handed fn the callback use was given for that id.
VisitedCbsAreRegistered(v) ==
    \A j \in 1..Len(v) :
        v[j].id \in DOMAIN registered /\ v[j].cb = registered[v[j].id]

\* C6: size() is the number of ids returned by use and not since ejected,
\* and a forward traversal that ended with no use or eject since it began
\* has invoked exactly the callbacks of those ids, once each, in ascending
\* id order.
C6_SizeAndForwardOrder ==
    /\ Size = Cardinality(DOMAIN registered)
    /\ (fwd.pc = "done" /\ ~fwd.mutated) =>
           /\ VisitedIds(fwd.visited) = Ascending(DOMAIN registered)
           /\ VisitedCbsAreRegistered(fwd.visited)

\* A forward traversal of two survivors of three registrations has ended,
\* after an eject of an id that was already ejected or never issued.
C6_Witness ==
    /\ fwd.pc = "done" /\ ~fwd.mutated
    /\ Len(issued) = 3
    /\ Len(fwd.visited) = 2
    /\ Size = 2

\* C7: a reverse traversal and a forward traversal of the same registry
\* state, neither with a use or eject since it began, visit the same
\* callbacks, the reverse one in exactly the reversed sequence.
C7_ReverseIsForwardReversed ==
    (fwd.pc = "done" /\ ~fwd.mutated /\ rev.pc = "done" /\ ~rev.mutated) =>
        /\ VisitedIds(rev.visited) = Reverse(VisitedIds(fwd.visited))
        /\ \A j \in 1..Len(rev.visited) :
               rev.visited[j].cb = fwd.visited[Len(fwd.visited) + 1 - j].cb

C7_Witness ==
    /\ fwd.pc = "done" /\ ~fwd.mutated
    /\ rev.pc = "done" /\ ~rev.mutated
    /\ Len(rev.visited) = 2
    /\ Len(issued) = 3

\* C8: every id use returns is greater than every id it returned before
\* (so none is returned twice, ejected or not), and eject leaves the ids
\* that remain in the order they had.
IssuedIdsIncrease ==
    \A a, b \in 1..Len(issued) : a < b => issued[a] < issued[b]

Position(s, x) == CHOOSE j \in 1..Len(s) : s[j] = x

Elements(s) == {s[j] : j \in 1..Len(s)}

EjectKeepsOrder ==
    (nextId' = nextId) =>
        /\ Len(interceptorIds') = Cardinality(Elements(interceptorIds'))
        /\ Elements(interceptorIds') \subseteq Elements(interceptorIds)
        /\ \A x, y \in Elements(interceptorIds') :
               (Position(interceptorIds, x) < Position(interceptorIds, y))
                   <=> (Position(interceptorIds', x) < Position(interceptorIds', y))

C8_IdsNeverReusedOrderKept == [](IssuedIdsIncrease) /\ [][EjectKeepsOrder]_vars

\* Three ids were issued, the second was ejected, the other two remain.
C8_Witness ==
    /\ Len(issued) = 3
    /\ interceptorIds = <<issued[1], issued[3]>>

\* C9: an id ejected while a traversal is suspended in another callback, its
\* own callback not yet invoked, is not invoked in the rest of that
\* traversal.
C9_EjectedNotInvoked ==
    /\ fwd.banned \cap Elements(VisitedIds(fwd.visited)) = {}
    /\ rev.banned \cap Elements(VisitedIds(rev.visited)) = {}

\* A forward traversal has gone past an id ejected during it and is in the
\* callback of a later id.
C9_Witness ==
    /\ fwd.pc = "suspended"
    /\ \E b \in fwd.banned : b < fwd.visited[Len(fwd.visited)].id

\* C10 (as claimed): the k-th request interceptor is invoked with the context
\* as left by interceptors 1..k-1, the seed context for k = 1.
RECURSIVE CtxAfter(_, _)
CtxAfter(v, k) ==
    IF k = 0 THEN fwd.seed
    ELSE Merge(CtxAfter(v, k - 1), ReqInterceptor(v[k].cb, v[k].arg))

C10_LaterInterceptorSeesEarlier ==
    \A k \in 1..Len(fwd.visited) :
        fwd.visited[k].arg = CtxAfter(fwd.visited, k - 1)

\* The number of times a traversal invoked the callback of id.
Invocations(v, id) == Cardinality({j \in 1..Len(v) : v[j].id = id})

\* The ids use had returned when traversal t began and eject was not called
\* on before it ended.
Survivors(t) == {id \in DOMAIN registered : id < t.startNext}

\* C21 (as claimed): a forward or a reverse traversal that has ended, other
\* entries ejected while it ran or not, has invoked the callback of every id
\* that was registered when it began and was not ejected before its end
\* exactly once.
C21_SurvivorsInvokedOnce ==
    /\ (fwd.pc = "done") =>
           \A id \in Survivors(fwd) : Invocations(fwd.visited, id) = 1
    /\ (rev.pc = "done") =>
           \A id \in Survivors(rev) : Invocations(rev.visited, id) = 1

\* ------------------------------------------------------------ the request
\* The error names request() and timeoutPromise() tell apart.
AbortError == "AbortError"
TimeoutError == "TimeoutError"
\* What the transport may reject with of its own accord: a network failure
\* (TypeError), or an error that already carries the name TimeoutError.
TransportErrors == {"TypeError", TimeoutError}
\* What response interceptor h throws.
InterceptorError == "InterceptorError"

Null == [name |-> "null", call |-> 0]
NoTimer == -1

\* The request bodies tried: options.data, by what typeof and instanceof say
\* of it.  "stream" is a ReadableStream, "number" a truthy primitive.
BodyKinds == {"absent", "string", "object", "stream", "number"}

TypeOf(kind) ==
    CASE kind = "absent" -> "undefined"
      [] kind = "string" -> "string"
      [] kind = "number" -> "number"
      [] OTHER           -> "object"

\* isBodyReusable(body): the instanceof tests all lie under typeof 'object'.
IsBodyReusable(kind) ==
    \/ kind = "absent"
    \/ TypeOf(kind) = "string"
    \/ TypeOf(kind) = "object"

\* normalizeRequestOptions: options.bodyCopy = structuredClone(options.body)
\* when the body is truthy and not reusable.
HasBodyCopy(kind) == kind # "absent" /\ ~IsBodyReusable(kind)

\* options.retries, options.retryDelay, options.timeout as the caller (or the
\* defaults) set them, and this.timeout as the constructor or the setter
\* left it.
Retries == -1..MaxRetries
RetryDelays == {1, DefaultRetryDelay}
Timeouts == {0, 1}
ThisTimeouts == {0, DefaultTimeout}

\* options.timeout || that.timeout
EffectiveTimeout(t, thisTimeout) == IF t # 0 THEN t ELSE thisTimeout

\* { ...this.defaults, ...opts }.timeout: the timeout of opts when the caller
\* set one, else that of the defaults, which the setter keeps equal to
\* this.timeout.
MergedTimeout(own, t, defaultsTimeout) == IF own THEN t ELSE defaultsTimeout

\* while (attempts <= retries)   (mutant: attempts < retries)
LoopContinuesStrict(attempts, retries) == attempts < retries
LoopContinues(attempts, retries) == attempts <= retries

\* if (attempts >= retries) throw lastError
RetriesExhausted(attempts, retries) == attempts >= retries

\* error.name === 'AbortError' || error.name === 'TimeoutError'
\* (mutant: only AbortError ends the loop)
IsCancellationOnlyAbort(name) == name = AbortError
IsCancellation(name) == name \in {AbortError, TimeoutError}

\* The catch block of timeoutPromise: an AbortError of fetch is renamed after
\* the state of the user signal, any other error is thrown on as it is.
\* (mutant: every abort is reported as a timeout)
ClassifyAlwaysTimeout(err, userAborted) ==
    IF err.name = AbortError THEN [err EXCEPT !.name = TimeoutError] ELSE err
Classify(err, userAborted) ==
    IF err.name = AbortError
    THEN [err EXCEPT !.name = IF userAborted THEN AbortError ELSE TimeoutError]
    ELSE err

\* await that.delay(retryDelay): the ticks the timer of delay() runs
\* (mutant: the wait is not taken)
DelayTicksNoWait(ms) == 0
DelayTicks(ms) == ms

IdleReq ==
    [pc |-> "idle", retries |-> 0, retryDelay |-> DefaultRetryDelay,
     ownTimeout |-> TRUE, timeout |-> 0,
     thisTimeout |-> DefaultTimeout, startTimeout |-> DefaultTimeout,
     signal |-> FALSE, aborted |-> FALSE, abortedIn |-> "none",
     listeners |-> 0,
     body |-> "absent", bodyCopy |-> FALSE, streamUsed |-> FALSE,
     attempts |-> 0, lastError |-> Null, delayLeft |-> 0, sinceEnd |-> 0,
     result |-> [attempt |-> 0, by |-> <<>>], error |-> Null]
IdleAtt == [pc |-> "idle", ctrlAborted |-> FALSE, listener |-> FALSE,
            timeLeft |-> NoTimer, timerFired |-> FALSE, first |-> "none"]

Finished == req.pc \in {"delivered", "failed"}

\* The head of the retry loop with `attempts` rounds behind it: either the
\* loop is left and lastError thrown, or the body is reset to its copy and
\* timeoutPromise builds the controller, arms the timer and calls fetch.
EnterLoop(r) ==
    IF ~LoopContinues(r.attempts, r.retries)
    THEN /\ req' = [r EXCEPT !.pc = "failed", !.error = r.lastError]
         /\ att' = IdleAtt
         /\ UNCHANGED calls
    ELSE /\ req' = [r EXCEPT !.pc = "attempt", !.sinceEnd = 0,
                             !.streamUsed = @ \/ r.body = "stream",
                             !.listeners = IF r.signal /\ ~r.aborted
                                           THEN @ + 1 ELSE @]
         /\ att' = [pc |-> "pending",
                    ctrlAborted |-> r.signal /\ r.aborted,
                    listener |-> r.signal /\ ~r.aborted,
                    timeLeft |-> IF EffectiveTimeout(r.timeout, r.thisTimeout) # 0
                                 THEN EffectiveTimeout(r.timeout, r.thisTimeout)
                                 ELSE NoTimer,
                    timerFired |-> FALSE,
                    first |-> IF r.signal /\ r.aborted THEN "user" ELSE "none"]
         /\ calls' = Append(calls, [body |-> r.body,
                                    copy |-> r.bodyCopy,
                                    used |-> r.streamUsed,
                                    signalAborted |-> r.signal /\ r.aborted,
                                    gap |-> r.sinceEnd,
                                    deadline |-> EffectiveTimeout(r.timeout, r.thisTimeout),
                                    first |-> "none",
                                    outcome |-> "pending",
                                    raised |-> Null, thrown |-> Null,
                                    userAborted |-> FALSE,
                                    timerFired |-> FALSE,
                                    chainThrew |-> FALSE])

\* The catch block of request() for an error thrown inside the try.
Catch(err) ==
    IF IsCancellation(err.name)
    THEN req' = [req EXCEPT !.pc = "failed", !.lastError = err, !.error = err]
    ELSE IF RetriesExhausted(req.attempts, req.retries)
    THEN req' = [req EXCEPT !.pc = "failed", !.lastError = err, !.error = err]
    ELSE req' = [req EXCEPT !.pc = "delay", !.lastError = err,
                            !.sinceEnd = 0,
                            !.delayLeft = DelayTicks(req.retryDelay)]

\* The record of the transport call that just settled: what fetch raised,
\* what timeoutPromise threw for it, and the state of the user signal and of
\* the deadline timer when the rejection was handled.  chainThrew is set
\* when a response interceptor throws on the response of the call.
EndCall(outcome, raised, thrown) ==
    calls' = [calls EXCEPT ![Len(calls)] =
                 [@ EXCEPT !.outcome = outcome, !.raised = raised,
                           !.thrown = thrown,
                           !.userAborted = req.signal /\ req.aborted,
                           !.timerFired = att.timerFired,
                           !.first = att.first]]

UserSignalAborted == req.signal /\ req.aborted

\* request() reaches the retry loop (index.ts:455).
BeginRequest ==
    /\ req.pc = "start"
    /\ EnterLoop(req)
    /\ UNCHANGED <<pathVars, regVars, fwd, rev>>

\* fetch resolves: the timer is cleared and the response chain begins.
TransportRespond ==
    /\ req.pc = "attempt" /\ att.pc = "pending" /\ ~att.ctrlAborted
    /\ att' = [att EXCEPT !.pc = "idle", !.timeLeft = NoTimer]
    /\ EndCall("ok", Null, Null)
    /\ req' = [req EXCEPT !.pc = "resChain"]
    /\ RevStartWith([attempt |-> Len(calls), by |-> <<>>])
    /\ UNCHANGED <<pathVars, regVars, fwd>>

\* fetch rejects with an error of its own.
TransportFail(name) ==
    /\ req.pc = "attempt" /\ att.pc = "pending" /\ ~att.ctrlAborted
    /\ att' = [att EXCEPT !.pc = "idle", !.timeLeft = NoTimer]
    /\ LET raised == [name |-> name, call |-> Len(calls)]
           thrown == Classify(raised, UserSignalAborted)
       IN  EndCall("error", raised, thrown) /\ Catch(thrown)
    /\ UNCHANGED <<pathVars, regVars, fwd, rev>>

\* fetch rejects because its signal was aborted, and the rejection is handled.
TransportAbort ==
    /\ req.pc = "attempt" /\ att.pc = "pending" /\ att.ctrlAborted
    /\ att' = [att EXCEPT !.pc = "idle", !.timeLeft = NoTimer]
    /\ LET raised == [name |-> AbortError, call |-> Len(calls)]
           thrown == Classify(raised, UserSignalAborted)
       IN  EndCall("abort", raised, thrown) /\ Catch(thrown)
    /\ UNCHANGED <<pathVars, regVars, fwd, rev>>

\* The deadline timer of the attempt fires: controller.abort().
TimerFire ==
    /\ att.pc = "pending" /\ att.timeLeft = 0
    /\ att' = [att EXCEPT !.ctrlAborted = TRUE, !.timeLeft = NoTimer,
                          !.timerFired = TRUE,
                          !.first = IF @ = "none" THEN "timer" ELSE @]
    /\ UNCHANGED <<pathVars, regVars, fwd, rev, req, calls>>

\* The caller aborts the signal it passed: the listeners the attempts put
\* on it run and are removed ({ once: true }); all but that of the attempt in
\* flight abort a controller nothing waits on any more.  abortedIn records
\* where request() stood when the signal was aborted.
UserAbort ==
    /\ ~Finished /\ req.pc # "idle"
    /\ req.signal /\ ~req.aborted
    /\ req' = [req EXCEPT !.aborted = TRUE, !.abortedIn = req.pc,
                          !.listeners = 0]
    /\ att' = IF att.pc = "pending" /\ att.listener
              THEN [att EXCEPT !.ctrlAborted = TRUE, !.listener = FALSE,
                               !.first = IF @ = "none" THEN "user" ELSE @]
              ELSE att
    /\ UNCHANGED <<pathVars, regVars, fwd, rev, calls>>

\* request.timeout = v while the request is in flight: the setter stores v in
\* this._timeout and in this.defaults.
SetTimeout(v) ==
    /\ req.pc \in {"attempt", "resChain", "delay"}
    /\ v # req.thisTimeout
    /\ req' = [req EXCEPT !.thisTimeout = v]
    /\ UNCHANGED <<pathVars, regVars, fwd, rev, att, calls>>

\* The awaited response interceptor settles.
ResChainStep ==
    /\ req.pc = "resChain" /\ rev.pc = "suspended"
    /\ RevResumeStep
    /\ UNCHANGED <<pathVars, regVars, fwd, reqVars>>

\* applyResponseInterceptors returned: return finalRes.
Deliver ==
    /\ req.pc = "resChain" /\ rev.pc = "done"
    /\ req' = [req EXCEPT !.pc = "delivered", !.result = rev.res]
    /\ UNCHANGED <<pathVars, regVars, fwd, rev, att, calls>>

\* A response interceptor threw: the error lands in the catch of request().
ResChainThrew ==
    /\ req.pc = "resChain" /\ rev.pc = "threw"
    /\ Catch([name |-> rev.error, call |-> Len(calls)])
    /\ calls' = [calls EXCEPT ![Len(calls)].chainThrew = TRUE]
    /\ rev' = IdleRev
    /\ UNCHANGED <<pathVars, regVars, fwd, att>>

\* The retry delay is over: attempts += 1; continue.
RetryAfterDelay ==
    /\ req.pc = "delay" /\ req.delayLeft = 0
    /\ EnterLoop([req EXCEPT !.attempts = @ + 1])
    /\ UNCHANGED <<pathVars, regVars, fwd, rev>>

\* A tick of the clock (1000 ms) while fetch is pending or delay() is
\* waiting; a timer that is due fires before the next tick.  sinceEnd counts
\* the ticks since the last attempt ended.
Tick ==
    \/ /\ req.pc = "attempt" /\ att.pc = "pending" /\ att.timeLeft > 0
       /\ att' = [att EXCEPT !.timeLeft = @ - 1]
       /\ UNCHANGED <<pathVars, regVars, fwd, rev, req, calls>>
    \/ /\ req.pc = "delay" /\ req.delayLeft > 0
       /\ req' = [req EXCEPT !.delayLeft = @ - 1, !.sinceEnd = @ + 1]
       /\ UNCHANGED <<pathVars, regVars, fwd, rev, att, calls>>

\* ----------------------------------------------- request(): path records
\* options.onDownloadProgress and options.onUploadProgress, the two options
\* request() chooses the path by.
ProgressFlags == {"onDownloadProgress", "onUploadProgress"}

\* if (options.onDownloadProgress) ... if (options.onUploadProgress) ...
DispatchKind(options) ==
    IF "onDownloadProgress" \in options THEN "download"
    ELSE IF "onUploadProgress" \in options THEN "upload"
    ELSE "direct"

\* A Response as the caller sees it: status, headers, and the chunks its
\* body yields when it is read to the end.
NoResponse == [status |-> 0, headers |-> {}, body |-> <<>>]

\* NaN, which no length equals
NaN == -1

\* parseInt(contentLength, 10) of a header value
DecimalOf(n) == <<"0", "1", "2", "3", "4", "5", "6", "7", "8", "9">>[n + 1]
ParseInt(text) ==
    IF \E n \in 0..9 : DecimalOf(n) = text
    THEN CHOOSE n \in 0..9 : DecimalOf(n) = text
    ELSE NaN

\* JS truthiness of a string and of a number
TruthyString(text) == text # ""
TruthyNumber(n) == n # NaN /\ n # 0

IdlePipe ==
    [stage |-> "idle", path |-> "none", ctx |-> SeedCtx, log |-> <<>>]

IdleDl ==
    [pc |-> "idle", ctrlAborted |-> FALSE, listener |-> FALSE,
     response |-> NoResponse, total |-> NaN, arriving |-> <<>>,
     stream2 |-> <<>>, receivedLength |-> 0, events |-> <<>>,
     elapsed |-> 0, result |-> NoResponse, error |-> Null]

IdleUp ==
    [pc |-> "idle", xhrTimeout |-> 0, event |-> "none", status |-> 0,
     responseText |-> "", promise |-> "pending", result |-> NoResponse,
     error |-> Null]

\* The response registry a request finds: n callbacks registered by use.
RegistryOf(cbs) ==
    /\ interceptorIds = [j \in 1..Len(cbs) |-> j - 1]
    /\ interceptors = [id \in 0..(Len(cbs) - 1) |-> cbs[id + 1]]
    /\ nextId = Len(cbs)
    /\ issued = [j \in 1..Len(cbs) |-> j - 1]
    /\ registered = [id \in 0..(Len(cbs) - 1) |-> cbs[id + 1]]

Chains == UNION {[1..n -> Callbacks] : n \in 0..MaxChain}

InitRequest ==
    /\ \E cbs \in Chains : RegistryOf(cbs)
    /\ fwd = IdleFwd
    /\ rev = IdleRev
    /\ \E retries \in Retries, retryDelay \in RetryDelays,
          own \in BOOLEAN, timeout \in Timeouts,
          thisTimeout \in ThisTimeouts,
          signal \in BOOLEAN, aborted \in BOOLEAN, body \in BodyKinds :
          /\ aborted => signal
          /\ req = [IdleReq EXCEPT !.pc = "start", !.retries = retries,
                                   !.retryDelay = retryDelay,
                                   !.ownTimeout = own,
                                   !.timeout = MergedTimeout(own, timeout, thisTimeout),
                                   !.thisTimeout = thisTimeout,
                                   !.startTimeout = thisTimeout,
                                   !.signal = signal,
                                   !.aborted = aborted,
                                   !.abortedIn = IF aborted THEN "start"
                                                 ELSE "none",
                                   !.body = body,
                                   !.bodyCopy = HasBodyCopy(body)]
    /\ att = IdleAtt
    /\ calls = <<>>
    /\ pipe = IdlePipe
    /\ dl = IdleDl
    /\ up = IdleUp

NextRequest ==
    \/ BeginRequest
    \/ TransportRespond
    \/ \E name \in TransportErrors : TransportFail(name)
    \/ TransportAbort
    \/ TimerFire
    \/ UserAbort
    \/ ResChainStep
    \/ Deliver
    \/ ResChainThrew
    \/ RetryAfterDelay
    \/ Tick

SpecRequest == InitRequest /\ [][NextRequest]_vars

\* A request without response interceptors and without a user signal, and a
\* caller that assigns request.timeout while it is in flight.
InitSetter ==
    /\ RegistryOf(<<>>)
    /\ fwd = IdleFwd
    /\ rev = IdleRev
    /\ \E retries \in 0..MaxRetries, own \in BOOLEAN, timeout \in Timeouts,
          thisTimeout \in ThisTimeouts :
          req = [IdleReq EXCEPT !.pc = "start", !.retries = retries,
                                !.retryDelay = 1,
                                !.ownTimeout = own,
                                !.timeout = MergedTimeout(own, timeout, thisTimeout),
                                !.thisTimeout = thisTimeout,
                                !.startTimeout = thisTimeout]
    /\ att = IdleAtt
    /\ calls = <<>>
    /\ pipe = IdlePipe
    /\ dl = IdleDl
    /\ up = IdleUp

NextSetter ==
    \/ BeginRequest
    \/ TransportRespond
    \/ \E name \in TransportErrors : TransportFail(name)
    \/ TransportAbort
    \/ TimerFire
    \/ Deliver
    \/ RetryAfterDelay
    \/ Tick
    \/ \E v \in ThisTimeouts : SetTimeout(v)

SpecSetter == InitSetter /\ [][NextSetter]_vars

\* -------------------------------------------------- request: what is claimed
AllCallsFailed ==
    \A i \in 1..Len(calls) :
        /\ calls[i].outcome = "error"
        /\ calls[i].raised.name \notin {AbortError, TimeoutError}

\* C1: with retries = N >= 0 and every transport attempt failing with an
\* error that is neither AbortError nor TimeoutError, the transport is
\* invoked N+1 times, never more, and the request rejects with the error the
\* last attempt raised.
C1_FailsAfterAllAttempts ==
    (req.retries >= 0) =>
        /\ (\A i \in 1..Len(calls) : calls[i].outcome \in {"error", "pending"})
               => Len(calls) <= req.retries + 1
        /\ (Len(calls) = req.retries + 1 /\ AllCallsFailed) => req.pc = "failed"
        /\ (req.pc = "failed" /\ AllCallsFailed) =>
               /\ Len(calls) = req.retries + 1
               /\ req.error = calls[Len(calls)].raised
               /\ req.error.call = req.retries + 1

C1_Witness ==
    /\ req.pc = "failed" /\ AllCallsFailed
    /\ req.retries = 2 /\ Len(calls) = 3

\* C2: an attempt that ended with the AbortError or TimeoutError
\* classification is the last transport attempt of its request, which has
\* rejected with that error, whatever retries is and however many attempts
\* went before.
C2_CancellationNeverRetried ==
    \A i \in 1..Len(calls) :
        calls[i].thrown.name \in {AbortError, TimeoutError} =>
            /\ i = Len(calls)
            /\ req.pc = "failed"
            /\ req.error = calls[i].thrown

\* The deadline ended the second attempt of a request that had one more
\* retry left.
C2_Witness ==
    /\ req.pc = "failed" /\ req.error.name = TimeoutError
    /\ req.retries = 2 /\ Len(calls) = 2
    /\ calls[2].outcome = "abort" /\ calls[2].timerFired

\* C3: an aborted attempt rejects with AbortError when the user signal is
\* cancelled (also when it was cancelled before the call) and with
\* TimeoutError when the deadline elapsed and the user signal never fired;
\* any other transport error reaches the caller as the transport raised it.
C3_Classification ==
    \A i \in 1..Len(calls) :
        /\ (calls[i].outcome = "abort" /\ calls[i].userAborted) =>
               calls[i].thrown.name = AbortError /\ req.error = calls[i].thrown
        /\ (calls[i].outcome = "abort" /\ calls[i].signalAborted) =>
               calls[i].thrown.name = AbortError
        /\ (calls[i].outcome = "abort" /\ ~calls[i].userAborted) =>
               /\ calls[i].timerFired
               /\ calls[i].thrown.name = TimeoutError
               /\ req.error = calls[i].thrown
        /\ (calls[i].outcome = "error") =>
               /\ calls[i].thrown = calls[i].raised
               /\ (i = Len(calls) /\ req.pc = "failed") => req.error = calls[i].raised

\* The caller cancelled its signal while the second attempt was in flight.
C3_Witness ==
    /\ req.pc = "failed" /\ req.error.name = AbortError
    /\ Len(calls) = 2
    /\ ~calls[2].signalAborted /\ calls[2].userAborted

\* The response chain applied to a response: the callbacks of the registry,
\* last registered first.
ChainOf(response) ==
    [response EXCEPT !.by = [j \in 1..Len(interceptorIds) |->
        interceptors[interceptorIds[Len(interceptorIds) + 1 - j]]]]

\* C4: when the first attempt fails with a transport error and the second
\* succeeds, the request returns the second attempt's response (as the
\* response chain hands it on), the transport was invoked twice, and a full
\* retryDelay lay between the end of the first attempt and the start of the
\* second; the same wait precedes every retry.
C4_RetryThenSuccess ==
    /\ \A i \in 2..Len(calls) : calls[i].gap >= req.retryDelay
    /\ (/\ req.pc = "delivered" /\ req.attempts = 1
        /\ calls[1].outcome = "error"
        /\ calls[1].raised.name \notin {AbortError, TimeoutError}
        /\ calls[2].outcome = "ok") =>
           /\ Len(calls) = 2
           /\ req.result = ChainOf([attempt |-> 2, by |-> <<>>])
           /\ calls[2].gap >= req.retryDelay

C4_Witness ==
    /\ req.pc = "delivered" /\ req.attempts = 1 /\ req.retries = 2
    /\ calls[1].outcome = "error" /\ calls[2].outcome = "ok"
    /\ req.retryDelay = DefaultRetryDelay
    /\ Len(req.result.by) = 2

\* C5 (as claimed): a request with a stream body and retries >= 1 whose
\* first attempt fails with a transport error fails with BodyNotReplayable
\* where the retry would occur, and the transport is not invoked a second
\* time with the used stream.
C5_StreamBodyNotResent ==
    /\ \A i \in 2..Len(calls) : ~(calls[i].body = "stream" /\ calls[i].used)
    /\ (/\ req.body = "stream" /\ req.retries >= 1 /\ Len(calls) >= 1
        /\ calls[1].outcome = "error"
        /\ calls[1].raised.name \notin {AbortError, TimeoutError}
        /\ req.pc # "delay") =>
           req.pc = "failed" /\ req.error.name = "BodyNotReplayable"

\* C12: on the direct path the value delivered is the response of the
\* successful attempt passed through the registered response interceptors,
\* last registered first, each handed what the one before it returned; no
\* response interceptor is invoked for an attempt that failed.
C12_DeliveredThroughReverseChain ==
    /\ (req.pc = "delivered") =>
           LET n == Len(calls)
               v == rev.visited
               raw == [attempt |-> n, by |-> <<>>]
           IN  /\ calls[n].outcome = "ok"
               /\ VisitedIds(v) = Reverse(interceptorIds)
               /\ \A k \in 1..Len(v) :
                      /\ v[k].cb = registered[v[k].id]
                      /\ v[k].arg = IF k = 1 THEN raw
                                    ELSE ResInterceptor(v[k - 1].cb, v[k - 1].arg)
               /\ req.result = IF v = <<>> THEN raw
                               ELSE ResInterceptor(v[Len(v)].cb, v[Len(v)].arg)
    /\ \A k \in 1..Len(rev.visited) :
           calls[rev.visited[k].arg.attempt].outcome = "ok"
    /\ (calls # <<>> /\ calls[Len(calls)].outcome \in {"error", "abort"}) =>
           rev.visited = <<>>

\* The second attempt succeeded and its response went through g, then f.
C12_Witness ==
    /\ req.pc = "delivered" /\ Len(calls) = 2
    /\ calls[1].outcome = "error"
    /\ interceptors = (0 :> "f" @@ 1 :> "g")
    /\ req.result = [attempt |-> 2, by |-> <<"g", "f">>]

\* C13 (as claimed): when a response interceptor throws on the direct path,
\* no further transport attempt is made, whatever retries is, and the
\* request rejects with the error the interceptor threw.
C13_InterceptorErrorEndsRequest ==
    \A i \in 1..Len(calls) :
        calls[i].chainThrew =>
            /\ i = Len(calls)
            /\ Finished =>
                   /\ req.pc = "failed"
                   /\ req.error = [name |-> InterceptorError, call |-> i]

\* C18 (as claimed): a request that sets no timeout of its own has the value
\* request.timeout had when it started as the deadline of its attempts, and
\* an assignment to request.timeout while a request is in flight changes the
\* deadline of none of its attempts, first or retried.
C18_SetterLeavesRequestsInFlight ==
    \A i \in 1..Len(calls) :
        /\ calls[i].deadline = EffectiveTimeout(req.timeout, req.startTimeout)
        /\ ~req.ownTimeout => calls[i].deadline = req.startTimeout

\* C19 (as claimed): when an attempt of the direct path has ended, its
\* deadline timer is not pending and the abort listener it put on the user
\* signal is not attached; when the request is delivered or has failed, no
\* timer and no listener it created is left.
C19_NoTimerNoListenerLeft ==
    /\ (req.pc \in {"resChain", "delay", "delivered", "failed"}) =>
           /\ att.timeLeft = NoTimer
           /\ req.listeners = 0
    /\ Finished => req.delayLeft = 0

\* C20 (as claimed): when the deadline timer and the user signal both fire
\* during one attempt, the one that fired first decides: TimeoutError when
\* the timer aborted the controller first, also when the user signal is
\* cancelled before the rejection is handled; AbortError when the user
\* signal fired first.
C20_FirstToFireDecides ==
    \A i \in 1..Len(calls) :
        (/\ calls[i].outcome = "abort"
         /\ ~calls[i].signalAborted
         /\ calls[i].timerFired /\ calls[i].userAborted) =>
            /\ (calls[i].first = "timer") => calls[i].thrown.name = TimeoutError
            /\ (calls[i].first = "user") => calls[i].thrown.name = AbortError

\* C23 (as claimed): when the user signal is cancelled while the direct path
\* waits in the delay between two attempts, the transport is not invoked
\* after the cancellation, no response is delivered, and the request rejects
\* with AbortError.
C23_CancelDuringDelay ==
    (req.abortedIn = "delay") =>
        /\ \A i \in 2..Len(calls) : ~calls[i].signalAborted
        /\ req.pc # "delivered"
        /\ Finished => req.error.name = AbortError

\* ------------------------------------------------- request(): the pipeline
\* One call of request(urlStr, opts) from its entry to its settlement.  The
\* registry variables hold what was registered before the call, on
\* interceptors.request and on interceptors.response alike; the user signal
\* and the retry options are those of req.

\* request() up to its first await: the url and the options are normalized
\* and applyRequestInterceptors is called with them.
StartRequest ==
    /\ pipe.stage = "created"
    /\ pipe' = [pipe EXCEPT !.stage = "intercepting",
                            !.log = Append(@, "Normalized")]
    /\ FwdStartWith(pipe.ctx)
    /\ UNCHANGED <<regVars, rev, reqVars, dl, up>>

\* downloadWithProgress up to `await fetch`: the controller and the listener
\* on the user signal; no timer is armed.
DlStart ==
    [IdleDl EXCEPT !.pc = "fetching",
                   !.ctrlAborted = req.signal /\ req.aborted,
                   !.listener = req.signal /\ ~req.aborted]

\* uploadWithProgress up to the end of the promise executor: xhr.timeout is
\* set, the request is sent, and an aborted user signal aborts it at once
\* (onabort rejects the promise).
UpStart ==
    IF req.signal /\ req.aborted
    THEN [IdleUp EXCEPT !.pc = "ended", !.event = "abort",
                        !.xhrTimeout = EffectiveTimeout(req.timeout, req.thisTimeout),
                        !.promise = "rejected",
                        !.error = [name |-> AbortError, call |-> 0]]
    ELSE [IdleUp EXCEPT !.pc = "sent",
                        !.xhrTimeout = EffectiveTimeout(req.timeout, req.thisTimeout)]

\* applyRequestInterceptors returned (url = ctx.url; options = ctx.options):
\* request() takes the url and the options of the context it got back and
\* enters the path they select.
Dispatch ==
    /\ pipe.stage = "intercepting" /\ fwd.pc = "done"
    /\ LET ctx == fwd.newCtx
           path == DispatchKind(ctx.options)
       IN  /\ pipe' = [pipe EXCEPT !.stage = "dispatched", !.path = path,
                                   !.ctx = ctx,
                                   !.log = @ \o <<"RequestInterceptorsApplied",
                                                  "Dispatched">>]
           /\ CASE path = "download" ->
                       dl' = DlStart /\ UNCHANGED <<reqVars, up>>
                [] path = "upload" ->
                       up' = UpStart /\ UNCHANGED <<reqVars, dl>>
                [] OTHER ->
                       EnterLoop([req EXCEPT !.pc = "start"])
                       /\ UNCHANGED <<dl, up>>
    /\ UNCHANGED <<regVars, fwd, rev>>


\* ----------------------------------------------------- downloadWithProgress
\* What the transport may answer a download with.  A chunk is an Uint8Array,
\* written as its length; the network delivers no empty chunk.
DlStatuses == {200, 206, 404}
RECURSIVE Sum(_)
Sum(s) == IF s = <<>> THEN 0 ELSE Head(s) + Sum(Tail(s))
ChunkSeqs ==
    {s \in UNION {[1..n -> 1..2] : n \in 0..MaxBytes} : Sum(s) <= MaxBytes}
LengthHeaders == {"", "0"} \cup {DecimalOf(n) : n \in 1..MaxBytes}

\* res.ok
IsOk(status) == status \in 200..299

\* res.headers.get('Content-Length'), null written as ""
GetContentLength(headers) ==
    IF \E h \in headers : h[1] = "Content-Length"
    THEN (CHOOSE h \in headers : h[1] = "Content-Length")[2]
    ELSE ""

\* const total = contentLength ? parseInt(contentLength, 10) : NaN
TotalOf(contentLength) ==
    IF TruthyString(contentLength) THEN ParseInt(contentLength) ELSE NaN

\* receivedLength += value.length   (mutant: the sum is not carried on)
ReceivedAfterLastOnly(receivedLength, len) == len
ReceivedAfter(receivedLength, len) == receivedLength + len

\* progress: total ? receivedLength / total : -1, the quotient kept as a
\* fraction (-1 as -1/1)
Fraction(num, den) == [num |-> num, den |-> den]
ProgressOf(receivedLength, total) ==
    IF TruthyNumber(total) THEN Fraction(receivedLength, total)
    ELSE Fraction(-1, 1)

\* The catch block of downloadWithProgress, which is that of timeoutPromise.
DlThrow(err) ==
    dl' = [dl EXCEPT !.pc = "failed",
                     !.error = Classify(err, UserSignalAborted)]

\* fetch resolves.  Without a body or with a status outside 200..299 an
\* Error is thrown; otherwise the body is teed and the reading begins.
DlRespond(status, hasBody, contentLength, chunks) ==
    /\ dl.pc = "fetching" /\ ~dl.ctrlAborted
    /\ LET headers == IF contentLength = "" THEN {}
                      ELSE {<<"Content-Length", contentLength>>}
           res == [status |-> status, headers |-> headers, body |-> chunks]
       IN  IF ~hasBody \/ ~IsOk(status)
           THEN DlThrow([name |-> "Error", call |-> 0])
           ELSE dl' = [dl EXCEPT !.pc = "reading", !.response = res,
                                 !.total = TotalOf(GetContentLength(headers)),
                                 !.arriving = chunks]
    /\ UNCHANGED <<regVars, fwd, rev, reqVars, pipe, up>>

\* fetch rejects with an error of its own.
DlTransportFail(name) ==
    /\ dl.pc = "fetching" /\ ~dl.ctrlAborted
    /\ DlThrow([name |-> name, call |-> 0])
    /\ UNCHANGED <<regVars, fwd, rev, reqVars, pipe, up>>

\* reader.read() resolves with a chunk: tee has put it on both branches, the
\* progress branch counts it and reports.
DlReadChunk ==
    /\ dl.pc = "reading" /\ ~dl.ctrlAborted /\ dl.arriving # <<>>
    /\ LET value == Head(dl.arriving)
           receivedLength == ReceivedAfter(dl.receivedLength, value)
       IN  dl' = [dl EXCEPT !.arriving = Tail(@),
                            !.stream2 = Append(@, value),
                            !.receivedLength = receivedLength,
                            !.events = Append(@,
                                [finished |-> receivedLength,
                                 total |-> dl.total,
                                 progress |-> ProgressOf(receivedLength, dl.total)])]
    /\ UNCHANGED <<regVars, fwd, rev, reqVars, pipe, up>>

\* reader.read() resolves with done: return new Response(stream2).
DlReadDone ==
    /\ dl.pc = "reading" /\ ~dl.ctrlAborted /\ dl.arriving = <<>>
    /\ dl' = [dl EXCEPT !.pc = "delivered",
                        !.result = [status |-> 200, headers |-> {},
                                    body |-> dl.stream2]]
    /\ UNCHANGED <<regVars, fwd, rev, reqVars, pipe, up>>

\* The caller aborts the signal it passed: the listener aborts the
\* controller of the download.
DlUserAbort ==
    /\ dl.pc \in {"fetching", "reading"}
    /\ req.signal /\ ~req.aborted
    /\ req' = [req EXCEPT !.aborted = TRUE]
    /\ dl' = IF dl.listener THEN [dl EXCEPT !.ctrlAborted = TRUE,
                                            !.listener = FALSE]
             ELSE dl
    /\ UNCHANGED <<regVars, fwd, rev, att, calls, pipe, up>>

\* The deadline the options of the request configure: options.timeout ||
\* this.timeout.  downloadWithProgress does not read it and arms no timer.
DlDeadline == EffectiveTimeout(req.timeout, req.thisTimeout)

\* A tick of the clock (1000 ms) while the download runs; elapsed counts the
\* ticks since it began, up to the first one after the deadline.
DlTick ==
    /\ dl.pc \in {"fetching", "reading"}
    /\ dl.elapsed <= DlDeadline
    /\ dl' = [dl EXCEPT !.elapsed = @ + 1]
    /\ UNCHANGED <<regVars, fwd, rev, reqVars, pipe, up>>

\* fetch, or the read of the body, rejects because the signal was aborted.
DlAborted ==
    /\ dl.pc \in {"fetching", "reading"} /\ dl.ctrlAborted
    /\ DlThrow([name |-> AbortError, call |-> 0])
    /\ UNCHANGED <<regVars, fwd, rev, reqVars, pipe, up>>


\* ------------------------------------------------------- uploadWithProgress
\* The ways the XMLHttpRequest of an upload ends: it completes with a status
\* and a response text, or it times out, is aborted, or fails.
UpStatuses == {200, 201, 500}
UpTexts == {"{\"status\":200}", "{\"status\":500}", "null", "<html>"}

\* JSON.parse(xhr.responseText)
JsonParse(text) ==
    CASE text = "{\"status\":200}" ->
             [throws |-> FALSE, kind |-> "object", status |-> 200]
      [] text = "{\"status\":500}" ->
             [throws |-> FALSE, kind |-> "object", status |-> 500]
      [] text = "null" ->
             [throws |-> FALSE, kind |-> "null", status |-> 0]
      [] OTHER ->
             [throws |-> TRUE, kind |-> "none", status |-> 0]

\* xhr.onreadystatechange at readyState 4: only status 200 is looked at; the
\* text is parsed, and a SyntaxError of JSON.parse or the TypeError of
\* reading .status of null leaves the handler before resolve is called.
OnReadyStateChange(u, status, text) ==
    LET data == JsonParse(text)
    IN  IF status # 200 THEN u
        ELSE IF data.throws \/ data.kind = "null" THEN u
        ELSE IF data.status = 200
        THEN [u EXCEPT !.promise = "resolved",
                       !.result = [status |-> 200, headers |-> {},
                                   body |-> <<text>>]]
        ELSE [u EXCEPT !.promise = "resolved",
                       !.result = [status |-> status, headers |-> {},
                                   body |-> <<"[object Object]">>]]

\* The request completes: readyState 4 with the status and the text the
\* server sent.
UpLoad(status, text) ==
    /\ up.pc = "sent"
    /\ up' = OnReadyStateChange([up EXCEPT !.pc = "ended", !.event = "load",
                                           !.status = status,
                                           !.responseText = text],
                                status, text)
    /\ UNCHANGED <<regVars, fwd, rev, reqVars, pipe, dl>>

\* The ending of an upload by ontimeout, onabort or onerror: the promise is
\* rejected with an error of the given name.
UpReject(event, name) ==
    up' = [up EXCEPT !.pc = "ended", !.event = event,
                     !.promise = "rejected",
                     !.error = [name |-> name, call |-> 0]]

\* xhr.ontimeout
UpTimeout ==
    /\ up.pc = "sent" /\ up.xhrTimeout # 0
    /\ UpReject("timeout", TimeoutError)
    /\ UNCHANGED <<regVars, fwd, rev, reqVars, pipe, dl>>

\* xhr.onerror
UpError ==
    /\ up.pc = "sent"
    /\ UpReject("error", "NetworkError")
    /\ UNCHANGED <<regVars, fwd, rev, reqVars, pipe, dl>>

\* The caller aborts the signal it passed: the listener calls xhr.abort(),
\* and xhr.onabort rejects.
UpUserAbort ==
    /\ up.pc = "sent"
    /\ req.signal /\ ~req.aborted
    /\ req' = [req EXCEPT !.aborted = TRUE]
    /\ UpReject("abort", AbortError)
    /\ UNCHANGED <<regVars, fwd, rev, att, calls, pipe, dl>>

\* -------------------------------------------------- pipeline: specification
\* The request registries tried, and the options of the call.  The
\* progress paths read no registry once they are entered, so they are tried
\* with the shorter chains.
ReqChains == UNION {[1..n -> ReqCallbacks] : n \in 0..MaxChain}
ProgressChains == UNION {[1..n -> ReqCallbacks] : n \in 0..(MaxChain - 1)}
PipeRetries == {0, 1}

InitPipeline ==
    /\ fwd = IdleFwd
    /\ rev = IdleRev
    /\ att = IdleAtt
    /\ calls = <<>>
    /\ dl = IdleDl
    /\ up = IdleUp
    /\ \E flags \in SUBSET ProgressFlags, retries \in PipeRetries,
          signal \in BOOLEAN :
          /\ \E cbs \in IF flags = {} THEN ReqChains ELSE ProgressChains :
                 RegistryOf(cbs)
          /\ pipe = [stage |-> "created", path |-> "none",
                     ctx |-> [url |-> <<"/posts/1">>, options |-> flags],
                     log |-> <<"Created">>]
          /\ req = [IdleReq EXCEPT !.retries = retries, !.retryDelay = 1,
                                   !.timeout = 1, !.signal = signal]

NextPipeline ==
    \/ StartRequest
    \/ FwdResume
    \/ Dispatch
    \/ TransportRespond
    \/ \E name \in TransportErrors : TransportFail(name)
    \/ TransportAbort
    \/ TimerFire
    \/ UserAbort
    \/ ResChainStep
    \/ Deliver
    \/ ResChainThrew
    \/ RetryAfterDelay
    \/ Tick
    \/ \E status \in DlStatuses, hasBody \in BOOLEAN,
          contentLength \in LengthHeaders, chunks \in ChunkSeqs :
          DlRespond(status, hasBody, contentLength, chunks)
    \/ \E name \in TransportErrors : DlTransportFail(name)
    \/ DlReadChunk
    \/ DlReadDone
    \/ DlUserAbort
    \/ DlTick
    \/ DlAborted
    \/ \E status \in UpStatuses, text \in UpTexts : UpLoad(status, text)
    \/ UpTimeout
    \/ UpError
    \/ UpUserAbort

SpecPipeline == InitPipeline /\ [][NextPipeline]_vars

\* ------------------------------------------------- pipeline: what is claimed
\* The context after one more request interceptor, as claimed: nothing
\* returned leaves it as it was, a returned url or options replaces that
\* field and the other field stays as the step before left it.
ClaimedStep(prev, result) ==
    IF result.void THEN prev
    ELSE IF result.hasUrl /\ ~result.hasOptions
    THEN [url |-> result.url, options |-> prev.options]
    ELSE IF result.hasOptions /\ ~result.hasUrl
    THEN [url |-> prev.url, options |-> result.options]
    ELSE [url |-> result.url, options |-> result.options]

RECURSIVE ClaimedCtx(_, _)
ClaimedCtx(v, k) ==
    IF k = 0 THEN fwd.seed
    ELSE ClaimedStep(ClaimedCtx(v, k - 1), ReqInterceptor(v[k].cb, v[k].arg))

\* The request interceptors that have returned so far.
Returned ==
    IF fwd.pc = "suspended" THEN Len(fwd.visited) - 1 ELSE Len(fwd.visited)

\* C11: while the request interceptors are applied, an interceptor that
\* returns nothing leaves the context in flight as it was, one that returns
\* only url or only options replaces that field and leaves the other as the
\* previous step left it; the context the request is dispatched with is the
\* one the last interceptor left.
C11_PartialResultKeepsOtherField ==
    /\ fwd.newCtx = ClaimedCtx(fwd.visited, Returned)
    /\ (pipe.stage = "dispatched") =>
           /\ pipe.ctx = ClaimedCtx(fwd.visited, Len(fwd.visited))
           /\ pipe.path = DispatchKind(pipe.ctx.options)

\* A request was dispatched after g (options only) and u (url only).
C11_Witness ==
    /\ pipe.stage = "dispatched"
    /\ Len(fwd.visited) = 2
    /\ fwd.visited[1].cb = "g" /\ fwd.visited[2].cb = "u"
    /\ pipe.ctx.url = <<"v2", "/posts/1">>
    /\ "X-Test-Header-2" \in pipe.ctx.options

\* The call of request() has returned a value, or has thrown.
PipeDelivered ==
    \/ pipe.path = "direct" /\ req.pc = "delivered"
    \/ pipe.path = "download" /\ dl.pc = "delivered"
    \/ pipe.path = "upload" /\ up.promise = "resolved"
PipeFailed ==
    \/ pipe.path = "direct" /\ req.pc = "failed"
    \/ pipe.path = "download" /\ dl.pc = "failed"
    \/ pipe.path = "upload" /\ up.promise = "rejected"

IsPrefix(s, t) == Len(s) <= Len(t) /\ s = SubSeq(t, 1, Len(s))

\* C14 (as claimed): a request passes Created, Normalized,
\* RequestInterceptorsApplied and Dispatched, in this order, before it is
\* delivered or fails; the registered response interceptors have been applied
\* to what is delivered when the path is direct or download, and none is
\* invoked when the path is upload.
C14_StagesAndResponseChain ==
    LET stages == <<"Created", "Normalized", "RequestInterceptorsApplied",
                    "Dispatched">>
    IN  /\ IsPrefix(pipe.log, stages)
        /\ (PipeDelivered \/ PipeFailed) => pipe.log = stages
        /\ (PipeDelivered /\ pipe.path \in {"direct", "download"}) =>
               VisitedIds(rev.visited) = Reverse(interceptorIds)
        /\ (PipeDelivered /\ pipe.path = "upload") => rev.visited = <<>>

\* C15: on the download path, for a response whose Content-Length is L > 0
\* and whose chunks add up to L, one progress event is emitted per chunk,
\* each with the bytes received so far and the total L; the last one reports
\* the fraction 1, and the body of the response returned, read to its end,
\* is the sequence of chunks the transport delivered.
C15_DownloadProgressAndBody ==
    LET body == dl.response.body
        L == Sum(body)
        n == Len(body) - Len(dl.arriving)
    IN  (/\ dl.pc \in {"reading", "delivered"}
         /\ L > 0
         /\ GetContentLength(dl.response.headers) = DecimalOf(L)) =>
            /\ Len(dl.events) = n
            /\ \A k \in 1..n :
                   /\ dl.events[k].finished = Sum(SubSeq(body, 1, k))
                   /\ dl.events[k].total = L
            /\ (dl.pc = "delivered") =>
                   /\ n = Len(body)
                   /\ dl.events[n].progress.num = dl.events[n].progress.den
                   /\ dl.events[n].progress.den > 0
                   /\ dl.result.body = body

\* Three bytes announced and delivered in a chunk of one and a chunk of two.
C15_Witness ==
    /\ dl.pc = "delivered"
    /\ dl.response.body = <<1, 2>>
    /\ GetContentLength(dl.response.headers) = "3"
    /\ Len(dl.events) = 2
    /\ dl.events[2].progress = Fraction(3, 3)

\* C16 (as claimed): the response the download path returns has the status
\* and the headers of the response the transport gave.
C16_DownloadKeepsStatusAndHeaders ==
    (dl.pc = "delivered") =>
        /\ dl.result.status = dl.response.status
        /\ dl.result.headers = dl.response.headers

\* C17 (as claimed): on the upload path, once the XMLHttpRequest has ended
\* (completion with any status and any response text, timeout, abort or
\* network error) the promise is settled: resolved with a response on
\* completion, rejected with TimeoutError, AbortError or NetworkError
\* otherwise.
C17_UploadSettles ==
    (up.pc = "ended") =>
        /\ up.promise # "pending"
        /\ (up.event = "load") => up.promise = "resolved"
        /\ (up.event = "timeout") =>
               up.promise = "rejected" /\ up.error.name = TimeoutError
        /\ (up.event = "abort") =>
               up.promise = "rejected" /\ up.error.name = AbortError
        /\ (up.event = "error") =>
               up.promise = "rejected" /\ up.error.name = "NetworkError"

\* C22 (as claimed): a download runs under the deadline and the user signal:
\* one that is settled after the configured deadline has elapsed, the user
\* signal never fired, has failed with TimeoutError, and one the user
\* cancelled has failed with AbortError.
C22_DownloadUnderDeadline ==
    /\ (/\ dl.pc \in {"delivered", "failed"}
        /\ DlDeadline # 0 /\ dl.elapsed > DlDeadline
        /\ ~UserSignalAborted) =>
           dl.pc = "failed" /\ dl.error.name = TimeoutError
    /\ (dl.pc \in {"delivered", "failed"} /\ UserSignalAborted) =>
           dl.pc = "failed" /\ dl.error.name = AbortError

Init ==
    /\ interceptors = <<>>
    /\ interceptorIds = <<>>
    /\ nextId = 0
    /\ issued = <<>>
    /\ registered = <<>>
    /\ fwd = IdleFwd
    /\ rev = IdleRev
    /\ req = IdleReq
    /\ att = IdleAtt
    /\ calls = <<>>
    /\ pipe = IdlePipe
    /\ dl = IdleDl
    /\ up = IdleUp

Next ==
    \/ \E cb \in Callbacks : Use(cb)
    \/ \E id \in Ids : Eject(id)
    \/ FwdStart
    \/ FwdResume
    \/ RevStart
    \/ RevResume

Spec == Init /\ [][Next]_vars
====
